---------------------------- MODULE Spec2Model ----------------------------
(***************************************************************************)
(* news2kindle: the periodic cycle of src/src/news2kindle.py               *)
(* (do_one_round and the __main__ loop), the fan-out collector             *)
(* get_posts_list with its FeedparserThread workers, the cursor kept in    *)
(* the modification time of FEED_FILE, the fragment sanitiser and the      *)
(* delivery gate.                                                          *)
(*                                                                         *)
(* Instants are integers counted in ticks since the Unix epoch, with       *)
(* TicksPerSec ticks in a second, so that the sub-second part of a         *)
(* datetime (which time.mktime(now.timetuple()) drops) is visible.  A      *)
(* naive datetime is the tick count of its wall-clock reading.             *)
(***************************************************************************)
EXTENDS Integers, Sequences, FiniteSets, TLC

VARIABLES
    pc,             \* position of the main thread in the __main__ loop / do_one_round
    err,            \* which call raised when pc = "crashed"
    clock,          \* the real instant (epoch ticks)
    zone,           \* the process's local time zone: [std, dst] offsets in seconds
    hasApiKey,      \* OPENAI_API_KEY is set (read once at import)
    fileExists,     \* FEED_FILE exists
    fileMtime,      \* FEED_FILE's modification time (epoch ticks)
    fileLines,      \* FEED_FILE's lines
    now,            \* do_one_round: now
    start,          \* do_one_round: start (the cutoff)
    usedDefault,    \* get_start took the "no file yet" branch in this cycle
    mtimeRead,      \* the modification time get_start read in this cycle
    feeds,          \* do_one_round: feeds / get_posts_list: feed_list
    ths,            \* get_posts_list: ths, one record per started worker
    jn,             \* get_posts_list: index of the thread being joined
    posts,          \* the list shared by the workers, then sorted in place
    arrival,        \* the posts in the order the workers appended them
    weather_data,   \* do_one_round: weather_data
    events,         \* do_one_round: events
    summary_html,   \* do_one_round: summary_html
    body_html,      \* do_one_round: body_html, the rendered document
    tmpHtmlExists,  \* build_epub_kindlesafe: the temporary .html file exists
    epubExists,     \* the EPUB artifact file exists
    size,           \* do_one_round: size (-1 before the stat)
    sendAttempts,   \* calls of send_mail in this cycle
    cycles,         \* calls of do_one_round so far
    advances,       \* calls of update_start so far
    recorded,       \* the instant given to the last update_start (0: none yet)
    san_pc,         \* sanitiser harness: which application comes next
    san_in,         \* sanitiser harness: the input fragment
    san_once,       \* sanitise_fragment(san_in)
    san_twice       \* sanitise_fragment(sanitise_fragment(san_in))

cycleVars == <<pc, err, clock, zone, hasApiKey, fileExists, fileMtime, fileLines,
               now, start, usedDefault, mtimeRead, feeds, ths, jn, posts, arrival,
               weather_data, events, summary_html, body_html, tmpHtmlExists,
               epubExists, size, sendAttempts, cycles, advances, recorded>>

sanVars == <<san_pc, san_in, san_once, san_twice>>

vars == <<cycleVars, sanVars>>

---------------------------------------------------------------------------
(* Bounds of the model *)

\* do_one_round is called at most this many times
MaxCycles == 2

\* resolution of an instant: ticks in one second
TicksPerSec == 2

\* the longest a network call of the cycle takes, in ticks
MaxElapse == 1

\* the most addresses in a feed list given to get_posts_list on its own
MaxFeeds == 2

\* the most pieces an input fragment of the sanitiser is assembled from
MaxPieces == 3

---------------------------------------------------------------------------
(* Program constants *)

\* timedelta(hours=24) in get_start
LookbackHours == 24

\* UPDATE_PERIOD default: minutes between runs
PERIOD == 12

\* the size limit of the delivery gate: 50 * 1024 * 1024 bytes
MaxEpubSize == 50 * 1024 * 1024

Day == LookbackHours * 3600 * TicksPerSec

\* the second the process is started in: a whole number of days after the
\* epoch
BaseEpoch == 1000 * Day

\* the instants the process may be started at: any tick of that second
StartInstants == BaseEpoch..(BaseEpoch + TicksPerSec - 1)

\* local time zones the process may run in: UTC, Europe/London in summer,
\* America/New_York in winter
Zones == { [std |-> 0, dst |-> 0],
           [std |-> 0, dst |-> 3600],
           [std |-> 0 - 18000, dst |-> 0] }

---------------------------------------------------------------------------
(* Time conversions *)

\* now.timetuple(): the wall-clock fields down to the second (the
\* microseconds are dropped), as seconds; tm_isdst is 0 for a pytz.utc
\* datetime
TimeTuple(dt) == dt \div TicksPerSec

\* time.mktime(t) with tm_isdst = 0: the fields are read as local STANDARD
\* time; the result is in epoch seconds
Mktime(secs) == secs - zone.std

\* datetime.fromtimestamp(ts): the naive local wall-clock reading of an epoch
\* time, daylight saving included
FromTimestamp(ts) == ts + (zone.std + zone.dst) * TicksPerSec

\* pytz.utc.localize(naive): the naive reading is labelled UTC, unconverted
UtcLocalize(naive) == naive

\* datetime.utcnow(): the naive UTC reading of the clock
UtcNow == clock

---------------------------------------------------------------------------
(* Cursor store and feed list: both live in FEED_FILE *)

IsFeedLine(ln) == ln # "" /\ ln # "#c"

RECURSIVE SelectLines(_)
SelectLines(lines) ==
    IF lines = <<>> THEN <<>>
    ELSE IF IsFeedLine(Head(lines))
         THEN <<Head(lines)>> \o SelectLines(Tail(lines))
         ELSE SelectLines(Tail(lines))

\* load_feeds()
load_feeds == IF ~fileExists THEN <<>> ELSE SelectLines(fileLines)

\* get_start(FEED_FILE): the value returned
get_start ==
    IF ~fileExists
    THEN UtcLocalize(UtcNow - Day)
    ELSE UtcLocalize(FromTimestamp(fileMtime) - Day)

\* update_start(now): the modification time set by os.utime
NewMtime(t) == Mktime(TimeTuple(t)) * TicksPerSec

\* update_start(now): what open(FEED_FILE, "a") leaves in the file
LinesAfterOpenAppend == IF fileExists THEN fileLines ELSE <<>>

\* contents FEED_FILE may have when the process starts
FeedFiles == { <<>>, <<"#c", "u1">>, <<"u1", "", "u2">> }

---------------------------------------------------------------------------
(* Source fetcher: one FeedparserThread per address *)

\* the name a feed gives itself (Post.blog)
BlogOf(url) == IF url = "u1" THEN "Beta" ELSE "Alpha"

\* what a fetch may come back with: the publication instants of the feed's
\* entries, as ticks after the cutoff (0: not after it)
FeedOutcomes == { <<>>, <<1>>, <<0, 2>>, <<2, 1>>, <<1, 1>> }

\* a Post, as far as list.sort() compares it: (time, blog)
Post(t, blog) == <<t, blog>>

\* FeedparserThread.run keeps an entry published strictly after the cutoff
KeepsEntry(offset) == start + offset > start

\* th = FeedparserThread(url, start_dt, posts)
NewThread(url) == [url |-> url, st |-> "started", failed |-> FALSE,
                   todo |-> <<>>, appended |-> 0]

---------------------------------------------------------------------------
(* Ordering of the collected posts *)

\* str.__lt__ on the blog names of the model
StrRank(s) == IF s = "Alpha" THEN 1 ELSE 2

\* tuple.__lt__: the first differing field decides
PostLess(a, b) ==
    \/ a[1] < b[1]
    \/ a[1] = b[1] /\ StrRank(a[2]) < StrRank(b[2])

\* one insertion of a stable sort: p goes after every element not greater
RECURSIVE InsertPost(_, _)
InsertPost(p, sorted) ==
    IF sorted = <<>> THEN <<p>>
    ELSE IF PostLess(p, Head(sorted))
         THEN <<p>> \o sorted
         ELSE <<Head(sorted)>> \o InsertPost(p, Tail(sorted))

RECURSIVE SortFrom(_, _)
SortFrom(done, rest) ==
    IF rest = <<>> THEN done
    ELSE SortFrom(InsertPost(Head(rest), done), Tail(rest))

\* posts.sort(): no key, so whole tuples are compared; the sort is stable
SortPosts(ps) == SortFrom(<<>>, ps)

---------------------------------------------------------------------------
(* Document assembly *)

\* a rendering that loses the last post
RenderArticles_DropsLast(ps) ==
    [i \in 1..(Len(ps) - 1) |-> [idx |-> i, time |-> ps[i][1], blog |-> ps[i][2]]]

\* HTML_PER_POST.format(**nicepost(p, i)) for i, p in enumerate(posts, start=1)
RenderArticles(ps) ==
    [i \in 1..Len(ps) |-> [idx |-> i, time |-> ps[i][1], blog |-> ps[i][2]]]

\* body_html: head, summary, the Articles heading and the item sections when
\* there are posts, tail
RenderBody(summary, ps) ==
    [ head     |-> TRUE,
      summary  |-> summary,
      heading  |-> ps # <<>>,
      articles |-> IF ps # <<>> THEN RenderArticles(ps) ELSE <<>>,
      tail     |-> TRUE ]

NoBody == [head |-> FALSE, summary |-> "", heading |-> FALSE,
           articles |-> <<>>, tail |-> FALSE]

---------------------------------------------------------------------------
(* Delivery gate *)

\* sizes the converter's output may have
EpubSizes == {0, 1, MaxEpubSize, MaxEpubSize + 1}

\* a gate that turns away an artifact of exactly the maximum size
GateAllowsSend_ExcludesLimit(sz) == ~(sz = 0) /\ ~(sz >= MaxEpubSize)

\* the branch of do_one_round that calls send_mail
GateAllowsSend(sz) == ~(sz = 0) /\ ~(sz > MaxEpubSize)

---------------------------------------------------------------------------
(* Initial states *)

\* the locals of do_one_round before a call
FreshLocals ==
    /\ now = 0
    /\ start = 0
    /\ usedDefault = FALSE
    /\ mtimeRead = 0
    /\ feeds = <<>>
    /\ ths = <<>>
    /\ jn = 1
    /\ posts = <<>>
    /\ arrival = <<>>
    /\ weather_data = "unset"
    /\ events = "unset"
    /\ summary_html = "unset"
    /\ body_html = NoBody
    /\ size = 0 - 1
    /\ sendAttempts = 0

SanIdle ==
    /\ san_pc = "off"
    /\ san_in = <<>>
    /\ san_once = <<>>
    /\ san_twice = <<>>

\* the process starts: FEED_FILE is absent, or was written a day or so ago
Init ==
    /\ pc = "idle"
    /\ err = "none"
    /\ clock \in StartInstants
    /\ zone \in Zones
    /\ hasApiKey \in BOOLEAN
    /\ \/ /\ fileExists = FALSE
          /\ fileMtime = 0
          /\ fileLines = <<>>
       \/ /\ fileExists = TRUE
          /\ fileMtime = BaseEpoch - Day - 3
          /\ fileLines \in FeedFiles
    /\ FreshLocals
    /\ tmpHtmlExists = FALSE
    /\ epubExists = FALSE
    /\ cycles = 0
    /\ advances = 0
    /\ recorded = 0
    /\ SanIdle

---------------------------------------------------------------------------
(* do_one_round, step by step *)

\* line 460: now = pytz.utc.localize(datetime.utcnow())
Begin ==
    /\ pc = "idle"
    /\ cycles < MaxCycles
    /\ cycles' = cycles + 1
    /\ now' = UtcLocalize(UtcNow)
    /\ pc' = "get_start"
    /\ UNCHANGED <<err, clock, zone, hasApiKey, fileExists, fileMtime, fileLines,
                   start, usedDefault, mtimeRead, feeds, ths, jn, posts, arrival,
                   weather_data, events, summary_html, body_html, tmpHtmlExists,
                   epubExists, size, sendAttempts, advances, recorded, sanVars>>

\* line 461: start = get_start(FEED_FILE)
GetStart ==
    /\ pc = "get_start"
    /\ start' = get_start
    /\ usedDefault' = ~fileExists
    /\ mtimeRead' = IF fileExists THEN fileMtime ELSE 0
    /\ pc' = "load_feeds"
    /\ UNCHANGED <<err, clock, zone, hasApiKey, fileExists, fileMtime, fileLines,
                   now, feeds, ths, jn, posts, arrival,
                   weather_data, events, summary_html, body_html, tmpHtmlExists,
                   epubExists, size, sendAttempts, cycles, advances, recorded, sanVars>>

\* lines 464-465: feeds = load_feeds(); get_posts_list is called only for a
\* non-empty list
LoadFeeds ==
    /\ pc = "load_feeds"
    /\ feeds' = load_feeds
    /\ pc' = IF feeds' # <<>> THEN "collect" ELSE "sort"
    /\ UNCHANGED <<err, clock, zone, hasApiKey, fileExists, fileMtime, fileLines,
                   now, start, usedDefault, mtimeRead, ths, jn, posts, arrival,
                   weather_data, events, summary_html, body_html, tmpHtmlExists,
                   epubExists, size, sendAttempts, cycles, advances, recorded, sanVars>>

collectRest == <<err, clock, zone, hasApiKey, fileExists, fileMtime, fileLines,
                 now, start, usedDefault, mtimeRead, feeds,
                 weather_data, events, summary_html, body_html, tmpHtmlExists,
                 epubExists, size, sendAttempts, cycles, advances, recorded, sanVars>>

\* get_posts_list, lines 166-167: the call, with an empty shared list and no
\* threads; the loops of an empty feed_list do nothing
GetPostsList ==
    /\ pc = "collect"
    /\ posts' = <<>>
    /\ ths' = <<>>
    /\ jn' = 1
    /\ pc' = IF feeds = <<>> THEN "sort" ELSE "spawn"
    /\ UNCHANGED arrival
    /\ UNCHANGED collectRest

\* get_posts_list, lines 168-171: one pass of the first loop creates, records
\* and starts the thread of the next address
Spawn ==
    /\ pc = "spawn"
    /\ Len(ths) < Len(feeds)
    /\ ths' = Append(ths, NewThread(feeds[Len(ths) + 1]))
    /\ pc' = IF Len(ths') = Len(feeds) THEN "join" ELSE "spawn"
    /\ UNCHANGED <<jn, posts, arrival>>
    /\ UNCHANGED collectRest

\* a join that does not wait for the thread
JoinReady_NoWait(k) == TRUE

\* the thread joined by one pass of the second loop has terminated
JoinReady(k) == ths[k].st = "done"

\* get_posts_list, lines 172-174: th.join() returns once that thread has
\* terminated; after the last one the shared list is returned
JoinOne ==
    /\ pc = "join"
    /\ jn <= Len(ths)
    /\ JoinReady(jn)
    /\ jn' = jn + 1
    /\ pc' = IF jn' > Len(ths) THEN "sort" ELSE "join"
    /\ UNCHANGED <<ths, posts, arrival>>
    /\ UNCHANGED collectRest

\* FeedparserThread.run: the fetch and parse of one address fails (caught in
\* the thread, nothing appended) or yields the feed's entries
WorkerFetch(i) ==
    /\ i \in 1..Len(ths)
    /\ ths[i].st = "started"
    /\ \/ ths' = [ths EXCEPT ![i].st = "done", ![i].failed = TRUE]
       \/ \E o \in FeedOutcomes :
            ths' = [ths EXCEPT ![i].st = IF o = <<>> THEN "done" ELSE "parsing",
                               ![i].todo = o]
    /\ UNCHANGED <<pc, jn, posts, arrival>>
    /\ UNCHANGED collectRest

\* FeedparserThread.run: the next entry is appended to the shared list when it
\* is newer than the cutoff (list.append is one atomic step of the interpreter)
WorkerAppend(i) ==
    /\ i \in 1..Len(ths)
    /\ ths[i].st = "parsing"
    /\ ths[i].todo # <<>>
    /\ LET o    == Head(ths[i].todo)
           rest == Tail(ths[i].todo)
           p    == Post(start + o, BlogOf(ths[i].url))
           keep == KeepsEntry(o)
       IN  /\ posts' = IF keep THEN Append(posts, p) ELSE posts
           /\ arrival' = IF keep THEN Append(arrival, p) ELSE arrival
           /\ ths' = [ths EXCEPT ![i].todo = rest,
                                 ![i].appended = IF keep THEN @ + 1 ELSE @,
                                 ![i].st = IF rest = <<>> THEN "done" ELSE "parsing"]
    /\ UNCHANGED <<pc, jn>>
    /\ UNCHANGED collectRest

\* line 466: posts.sort()
Sort ==
    /\ pc = "sort"
    /\ posts' = SortPosts(posts)
    /\ pc' = "weather"
    /\ UNCHANGED <<err, clock, zone, hasApiKey, fileExists, fileMtime, fileLines,
                   now, start, usedDefault, mtimeRead, feeds, ths, jn, arrival,
                   weather_data, events, summary_html, body_html, tmpHtmlExists,
                   epubExists, size, sendAttempts, cycles, advances, recorded, sanVars>>

\* line 469, fetch_cardiff_weather_data: any failure of the request or of the
\* parse is caught and gives None; the call takes some time
FetchWeather ==
    /\ pc = "weather"
    /\ weather_data' \in {"None", "data"}
    /\ \E d \in 1..MaxElapse : clock' = clock + d
    /\ pc' = "events"
    /\ UNCHANGED <<err, zone, hasApiKey, fileExists, fileMtime, fileLines,
                   now, start, usedDefault, mtimeRead, feeds, ths, jn, posts, arrival,
                   events, summary_html, body_html, tmpHtmlExists,
                   epubExists, size, sendAttempts, cycles, advances, recorded, sanVars>>

\* line 470, fetch_todays_events_struct: a calendar that cannot be fetched or
\* parsed is skipped, so the list may come back empty
FetchEvents ==
    /\ pc = "events"
    /\ events' \in {"empty", "some"}
    /\ pc' = "summary"
    /\ UNCHANGED <<err, clock, zone, hasApiKey, fileExists, fileMtime, fileLines,
                   now, start, usedDefault, mtimeRead, feeds, ths, jn, posts, arrival,
                   weather_data, summary_html, body_html, tmpHtmlExists,
                   epubExists, size, sendAttempts, cycles, advances, recorded, sanVars>>

\* line 471, build_chatgpt_summary_html: without a key the static fallback
\* (lines 314-330); with one, the completion call of lines 353-363, which is
\* inside no try block: it returns a fragment or its exception leaves
\* do_one_round and the __main__ loop
BuildSummary ==
    /\ pc = "summary"
    /\ IF ~hasApiKey
       THEN /\ summary_html' = "fallback"
            /\ pc' = "render"
            /\ err' = err
       ELSE \/ /\ summary_html' = "generated"
               /\ pc' = "render"
               /\ err' = err
            \/ /\ summary_html' = summary_html
               /\ pc' = "crashed"
               /\ err' = "summary"
    /\ UNCHANGED <<clock, zone, hasApiKey, fileExists, fileMtime, fileLines,
                   now, start, usedDefault, mtimeRead, feeds, ths, jn, posts, arrival,
                   weather_data, events, body_html, tmpHtmlExists,
                   epubExists, size, sendAttempts, cycles, advances, recorded, sanVars>>

\* lines 474-486: body_html
Render ==
    /\ pc = "render"
    /\ body_html' = RenderBody(summary_html, posts)
    /\ pc' = "build"
    /\ UNCHANGED <<err, clock, zone, hasApiKey, fileExists, fileMtime, fileLines,
                   now, start, usedDefault, mtimeRead, feeds, ths, jn, posts, arrival,
                   weather_data, events, summary_html, tmpHtmlExists,
                   epubExists, size, sendAttempts, cycles, advances, recorded, sanVars>>

buildRest == <<clock, zone, hasApiKey, fileExists, fileMtime, fileLines,
               now, start, usedDefault, mtimeRead, feeds, ths, jn, posts, arrival,
               weather_data, events, summary_html, body_html,
               sendAttempts, cycles, advances, recorded, sanVars>>

\* build_epub_kindlesafe, lines 381-384: with ebook-convert on the PATH the
\* document is written to a temporary .html file; without it pandoc is used
BuildBegin ==
    /\ pc = "build"
    /\ \/ /\ tmpHtmlExists' = TRUE
          /\ pc' = "ebook_convert"
       \/ /\ tmpHtmlExists' = tmpHtmlExists
          /\ pc' = "pandoc"
    /\ UNCHANGED <<err, epubExists, size>>
    /\ UNCHANGED buildRest

\* build_epub_kindlesafe, lines 395-407: ebook-convert writes the EPUB, or
\* exits non-zero (check=True raises, possibly after a partial output); the
\* finally block removes the temporary file either way.  Line 494 then stats
\* the artifact
EbookConvert ==
    /\ pc = "ebook_convert"
    /\ tmpHtmlExists' = FALSE
    /\ \/ /\ epubExists' = TRUE
          /\ size' \in EpubSizes
          /\ pc' = "gate"
          /\ err' = err
       \/ /\ epubExists' \in BOOLEAN
          /\ size' = size
          /\ pc' = "crashed"
          /\ err' = "convert"
    /\ UNCHANGED buildRest

\* build_epub_kindlesafe, lines 410-424: pypandoc.convert_text writes the
\* EPUB or raises.  Line 494 then stats the artifact
Pandoc ==
    /\ pc = "pandoc"
    /\ \/ /\ epubExists' = TRUE
          /\ size' \in EpubSizes
          /\ pc' = "gate"
          /\ err' = err
       \/ /\ epubExists' \in BOOLEAN
          /\ size' = size
          /\ pc' = "crashed"
          /\ err' = "convert"
    /\ UNCHANGED tmpHtmlExists
    /\ UNCHANGED buildRest

\* lines 495-500: the size checks before the send
Gate ==
    /\ pc = "gate"
    /\ pc' = IF GateAllowsSend(size) THEN "send" ELSE "cleanup"
    /\ UNCHANGED <<err, tmpHtmlExists, epubExists, size>>
    /\ UNCHANGED buildRest

\* lines 501-508: send_mail returns, or an SMTP error leaves do_one_round and
\* the __main__ loop
SendMail ==
    /\ pc = "send"
    /\ sendAttempts' = sendAttempts + 1
    /\ \/ /\ pc' = "cleanup"
          /\ err' = err
       \/ /\ pc' = "crashed"
          /\ err' = "send"
    /\ UNCHANGED <<clock, zone, hasApiKey, fileExists, fileMtime, fileLines,
                   now, start, usedDefault, mtimeRead, feeds, ths, jn, posts, arrival,
                   weather_data, events, summary_html, body_html, tmpHtmlExists,
                   epubExists, size, cycles, advances, recorded, sanVars>>

\* lines 511-515: the artifact is unlinked
Cleanup ==
    /\ pc = "cleanup"
    /\ epubExists' = FALSE
    /\ pc' = "update_start"
    /\ UNCHANGED <<err, tmpHtmlExists, size>>
    /\ UNCHANGED buildRest

\* line 518, update_start(now): FEED_FILE is opened for appending (created
\* empty when absent) and its modification time is set
UpdateStart ==
    /\ pc = "update_start"
    /\ fileLines' = LinesAfterOpenAppend
    /\ fileExists' = TRUE
    /\ fileMtime' = NewMtime(now)
    /\ advances' = advances + 1
    /\ recorded' = now
    /\ pc' = "sleeping"
    /\ UNCHANGED <<err, clock, zone, hasApiKey,
                   now, start, usedDefault, mtimeRead, feeds, ths, jn, posts, arrival,
                   weather_data, events, summary_html, body_html, tmpHtmlExists,
                   epubExists, size, sendAttempts, cycles, sanVars>>

\* line 526: time.sleep(PERIOD * 60); the next call of do_one_round starts
\* with fresh locals
Sleep ==
    /\ pc = "sleeping"
    /\ clock' = clock + PERIOD * 60 * TicksPerSec
    /\ pc' = "idle"
    /\ now' = 0
    /\ start' = 0
    /\ usedDefault' = FALSE
    /\ mtimeRead' = 0
    /\ feeds' = <<>>
    /\ ths' = <<>>
    /\ jn' = 1
    /\ posts' = <<>>
    /\ arrival' = <<>>
    /\ weather_data' = "unset"
    /\ events' = "unset"
    /\ summary_html' = "unset"
    /\ body_html' = NoBody
    /\ size' = 0 - 1
    /\ sendAttempts' = 0
    /\ UNCHANGED <<err, zone, hasApiKey, fileExists, fileMtime, fileLines,
                   tmpHtmlExists, epubExists, cycles, advances, recorded, sanVars>>

Worker(i) == WorkerFetch(i) \/ WorkerAppend(i)

Next ==
    \/ Begin \/ GetStart \/ LoadFeeds
    \/ GetPostsList \/ Spawn \/ JoinOne
    \/ \E i \in 1..Len(ths) : Worker(i)
    \/ Sort \/ FetchWeather \/ FetchEvents \/ BuildSummary \/ Render
    \/ BuildBegin \/ EbookConvert \/ Pandoc \/ Gate \/ SendMail
    \/ Cleanup \/ UpdateStart \/ Sleep

Spec == Init /\ [][Next]_vars

---------------------------------------------------------------------------
(* The fan-out collector on its own: get_posts_list called with any list of *)
(* at most MaxFeeds addresses                                               *)

Addresses == {"u1", "u2"}

FeedLists == UNION { [1..n -> Addresses] : n \in 0..MaxFeeds }

CollectInit ==
    /\ pc = "collect"
    /\ err = "none"
    /\ clock = BaseEpoch
    /\ zone = [std |-> 0, dst |-> 0]
    /\ hasApiKey = FALSE
    /\ fileExists = FALSE
    /\ fileMtime = 0
    /\ fileLines = <<>>
    /\ now = BaseEpoch
    /\ start = BaseEpoch - Day
    /\ usedDefault = TRUE
    /\ mtimeRead = 0
    /\ feeds \in FeedLists
    /\ ths = <<>>
    /\ jn = 1
    /\ posts = <<>>
    /\ arrival = <<>>
    /\ weather_data = "unset"
    /\ events = "unset"
    /\ summary_html = "unset"
    /\ body_html = NoBody
    /\ size = 0 - 1
    /\ sendAttempts = 0
    /\ tmpHtmlExists = FALSE
    /\ epubExists = FALSE
    /\ cycles = 1
    /\ advances = 0
    /\ recorded = 0
    /\ SanIdle

CollectNext ==
    \/ GetPostsList \/ Spawn \/ JoinOne
    \/ \E i \in 1..Len(ths) : Worker(i)

\* the interpreter schedules every runnable thread, and a worker's fetch
\* comes back (with entries or with an error)
CollectFairness ==
    /\ WF_vars(GetPostsList)
    /\ WF_vars(Spawn)
    /\ WF_vars(JoinOne)
    /\ \A i \in 1..MaxFeeds : WF_vars(Worker(i))

CollectSpec == CollectInit /\ [][CollectNext]_vars /\ CollectFairness

---------------------------------------------------------------------------
(* Claims about the collector *)

AllFailed == \A i \in 1..Len(ths) : ths[i].failed

\* what holds when get_posts_list has returned
CollectReturned ==
    /\ Len(ths) = Len(feeds)
    /\ \A i \in 1..Len(ths) : ths[i].url = feeds[i] /\ ths[i].st = "done"
    /\ AllFailed => posts = <<>>

\* C4: get_posts_list starts exactly one worker per address, returns only
\* after every started worker has terminated, and does return whatever the
\* outcome of each worker, with an empty list when every worker fails.
C4_CollectReturnsAfterAllWorkers ==
    /\ [](pc = "sort" => CollectReturned)
    /\ (pc = "collect") ~> (pc = "sort")

\* C4 witness: two workers were started, both failed, and the call returned
\* the empty list
C4_Witness_AllFail ==
    /\ pc = "sort"
    /\ Len(ths) = 2
    /\ AllFailed
    /\ posts = <<>>

---------------------------------------------------------------------------
(* Fragment sanitiser: a fragment is a sequence of characters *)

UpperCase == <<"A", "B", "C", "D", "E", "F", "G", "H", "I", "J", "K", "L", "M",
               "N", "O", "P", "Q", "R", "S", "T", "U", "V", "W", "X", "Y", "Z">>

LowerCase == <<"a", "b", "c", "d", "e", "f", "g", "h", "i", "j", "k", "l", "m",
               "n", "o", "p", "q", "r", "s", "t", "u", "v", "w", "x", "y", "z">>

\* re.IGNORECASE: characters are compared by their lower-case form
Lower(c) ==
    IF \E k \in 1..Len(UpperCase) : UpperCase[k] = c
    THEN LowerCase[CHOOSE k \in 1..Len(UpperCase) : UpperCase[k] = c]
    ELSE c

\* \w, for the word boundary of IMG_TAG_RE
IsWordChar(c) ==
    \/ \E k \in 1..Len(LowerCase) : LowerCase[k] = Lower(c)
    \/ c \in {"0", "1", "2", "3", "4", "5", "6", "7", "8", "9", "_"}

\* BAD_TAGS_RE, line 93: the names of the denylist
BadTagNames == { <<"s", "c", "r", "i", "p", "t">>,
                 <<"s", "t", "y", "l", "e">>,
                 <<"i", "f", "r", "a", "m", "e">>,
                 <<"s", "v", "g">>,
                 <<"o", "b", "j", "e", "c", "t">>,
                 <<"e", "m", "b", "e", "d">>,
                 <<"n", "o", "s", "c", "r", "i", "p", "t">>,
                 <<"v", "i", "d", "e", "o">>,
                 <<"a", "u", "d", "i", "o">> }

\* the literal w stands in s at position i, case ignored
MatchesAt(s, i, w) ==
    /\ i >= 1
    /\ i + Len(w) - 1 <= Len(s)
    /\ \A k \in 1..Len(w) : Lower(s[i + k - 1]) = w[k]

\* the literal w stands in s at position i, case respected
MatchesExactlyAt(s, i, w) ==
    /\ i >= 1
    /\ i + Len(w) - 1 <= Len(s)
    /\ \A k \in 1..Len(w) : s[i + k - 1] = w[k]

\* [^>]*> from position j on: the position of the first ">", 0 when none
FirstClose(s, j) ==
    IF \E k \in j..Len(s) : s[k] = ">"
    THEN CHOOSE k \in j..Len(s) : s[k] = ">" /\ \A m \in j..(k - 1) : s[m] # ">"
    ELSE 0

\* BAD_TAGS_RE = </?(script|style|...)[^>]*>, ignoring case: the position
\* where a match starting at i ends, 0 when none starts there
BadTagEnd(s, i) ==
    IF s[i] # "<" THEN 0
    ELSE LET j == IF i + 1 <= Len(s) /\ s[i + 1] = "/" THEN i + 2 ELSE i + 1
         IN  IF \E w \in BadTagNames : MatchesAt(s, j, w)
             THEN FirstClose(s, j + Len(CHOOSE w \in BadTagNames : MatchesAt(s, j, w)))
             ELSE 0

\* IMG_TAG_RE = <img\b[^>]*>, ignoring case: the position where a match
\* starting at i ends, 0 when none starts there
ImgTagEnd(s, i) ==
    IF /\ MatchesAt(s, i, <<"<", "i", "m", "g">>)
       /\ i + 4 <= Len(s)
       /\ ~IsWordChar(s[i + 4])
    THEN FirstClose(s, i + 4)
    ELSE 0

Thinsp == <<"&", "t", "h", "i", "n", "s", "p", ";">>

\* html_text.replace("&thinsp;", " "): every non-overlapping occurrence, from
\* the left
RECURSIVE ReplaceThinsp(_, _)
ReplaceThinsp(s, i) ==
    IF i > Len(s) THEN <<>>
    ELSE IF MatchesExactlyAt(s, i, Thinsp)
         THEN <<" ">> \o ReplaceThinsp(s, i + Len(Thinsp))
         ELSE <<s[i]>> \o ReplaceThinsp(s, i + 1)

\* BAD_TAGS_RE.sub("", s): every non-overlapping match, from the left, removed
RECURSIVE SubBadTags(_, _)
SubBadTags(s, i) ==
    IF i > Len(s) THEN <<>>
    ELSE IF BadTagEnd(s, i) # 0
         THEN SubBadTags(s, BadTagEnd(s, i) + 1)
         ELSE <<s[i]>> \o SubBadTags(s, i + 1)

\* IMG_TAG_RE.sub("", s)
RECURSIVE SubImgTags(_, _)
SubImgTags(s, i) ==
    IF i > Len(s) THEN <<>>
    ELSE IF ImgTagEnd(s, i) # 0
         THEN SubImgTags(s, ImgTagEnd(s, i) + 1)
         ELSE <<s[i]>> \o SubImgTags(s, i + 1)

\* sanitise_fragment, lines 187-190: one pass of each, in this order
sanitise_fragment(html_text) ==
    SubImgTags(SubBadTags(ReplaceThinsp(html_text, 1), 1), 1)

\* the pieces input fragments are assembled from
Pieces == { <<"<", "s", "c", "r">>,
            <<"i", "p", "t", ">">>,
            <<"<", "s", "c", "r", "i", "p", "t", ">">>,
            <<"<", "/", "S", "t", "y", "l", "e", " ", "x", ">">>,
            <<"<", "i", "m", "g", ">">>,
            <<"<", "i", "m">>,
            <<"g", " ", "a", ">">>,
            <<"&", "t", "h", "i", "n">>,
            <<"s", "p", ";">>,
            <<"<", "i", "m", "g", "s", ">">>,
            <<"a">> }

RECURSIVE Concat(_, _)
Concat(ps, k) == IF k > Len(ps) THEN <<>> ELSE ps[k] \o Concat(ps, k + 1)

Fragments == { Concat(ps, 1) : ps \in UNION { [1..n -> Pieces] : n \in 0..MaxPieces } }

SanInit ==
    /\ san_pc = "first"
    /\ san_in \in Fragments
    /\ san_once = <<>>
    /\ san_twice = <<>>
    /\ pc = "idle"
    /\ err = "none"
    /\ clock = BaseEpoch
    /\ zone = [std |-> 0, dst |-> 0]
    /\ hasApiKey = FALSE
    /\ fileExists = FALSE
    /\ fileMtime = 0
    /\ fileLines = <<>>
    /\ FreshLocals
    /\ tmpHtmlExists = FALSE
    /\ epubExists = FALSE
    /\ cycles = 0
    /\ advances = 0
    /\ recorded = 0

\* nicepost, line 201: the body of a post is sanitised
SanitiseOnce ==
    /\ san_pc = "first"
    /\ san_once' = sanitise_fragment(san_in)
    /\ san_pc' = "second"
    /\ UNCHANGED <<san_in, san_twice, cycleVars>>

\* the result is sanitised again
SanitiseTwice ==
    /\ san_pc = "second"
    /\ san_twice' = sanitise_fragment(san_once)
    /\ san_pc' = "done"
    /\ UNCHANGED <<san_in, san_once, cycleVars>>

SanNext == SanitiseOnce \/ SanitiseTwice

SanSpec == SanInit /\ [][SanNext]_vars

\* C6: sanitise_fragment is idempotent: sanitising the result of a
\* sanitisation changes nothing, whatever the input fragment.
C6_SanitiseIdempotent == san_pc = "done" => san_twice = san_once

---------------------------------------------------------------------------
(* Claims about the cycle *)

\* do_one_round has returned
RoundReturned == pc \in {"sleeping", "idle"} /\ cycles > 0

\* the artifact's size passes both checks of the gate
ValidSize == size >= 1 /\ size <= 50 * 1024 * 1024

\* C1: after every delivery attempt of do_one_round, on every exit path
\* (mail sent, artifact empty, artifact over 50 MB, the converter raises,
\* send_mail raises), the temporary HTML file and the EPUB artifact no longer
\* exist.
C1_FilesRemovedOnEveryExit ==
    (pc \in {"update_start", "sleeping"} \/ (pc = "crashed" /\ err \in {"convert", "send"}))
        => (~tmpHtmlExists /\ ~epubExists)

\* C2: every cycle that starts advances the cursor once, at its end, also when
\* the packaging converter raises: a packaging error only skips transmission.
C2_EveryCycleAdvancesCursor ==
    (RoundReturned \/ (pc = "crashed" /\ err = "convert")) => advances = cycles

\* C3: in one cycle send_mail is never attempted for an artifact of size zero
\* or of more than 50 MB, is attempted exactly once for a non-empty artifact
\* of at most 50 MB, and is never attempted twice.
C3_SendGatedBySize ==
    /\ sendAttempts <= 1
    /\ (size = 0 \/ size > 50 * 1024 * 1024) => sendAttempts = 0
    /\ (pc \in {"cleanup", "update_start", "sleeping"} /\ ValidSize) => sendAttempts = 1
    /\ (pc = "crashed" /\ err = "send") => (ValidSize /\ sendAttempts = 1)

\* C3 witness: an artifact of exactly 50 MB has been sent, once
C3_Witness_SentAtLimit ==
    /\ pc = "cleanup"
    /\ size = 50 * 1024 * 1024
    /\ sendAttempts = 1

\* C5: get_start called at instant N with no marker file returns N minus 24
\* hours; after a cycle that started at instant M has run update_start, the
\* next get_start returns M minus 24 hours.
C5_CutoffIsCycleStartMinusDay ==
    pc = "load_feeds" =>
        /\ usedDefault => start = clock - Day
        /\ advances > 0 => start = recorded - Day

\* the posts of the document's item sections, in document order
ArticlePosts == [k \in 1..Len(body_html.articles) |->
                    <<body_html.articles[k].time, body_html.articles[k].blog>>]

\* one insertion of a stable sort by instant alone: p goes after every
\* element whose instant is not later
RECURSIVE InsertByInstant(_, _)
InsertByInstant(p, sorted) ==
    IF sorted = <<>> THEN <<p>>
    ELSE IF p[1] < Head(sorted)[1]
         THEN <<p>> \o sorted
         ELSE <<Head(sorted)>> \o InsertByInstant(p, Tail(sorted))

RECURSIVE StableFrom(_, _)
StableFrom(done, rest) ==
    IF rest = <<>> THEN done
    ELSE StableFrom(InsertByInstant(Head(rest), done), Tail(rest))

\* the stable ascending sort by publication instant of a sequence of posts
StableSortByInstant(ps) == StableFrom(<<>>, ps)

\* C7: the item sections of the rendered document are a stable ascending sort
\* by publication instant of the appended items: earlier instants first, equal
\* instants in arrival order.
C7_StableSortByInstant ==
    pc = "build" => ArticlePosts = StableSortByInstant(arrival)

\* C8: a failure of an auxiliary collaborator (weather, calendar, summary
\* generation) never ends the cycle: it is absorbed and the cycle goes on to
\* assemble and deliver the document.
C8_AuxiliaryFailureAbsorbed == ~(pc = "crashed" /\ err = "summary")

RECURSIVE SumAppended(_)
SumAppended(k) == IF k = 0 THEN 0 ELSE ths[k].appended + SumAppended(k - 1)

CountIn(x, seq) == Cardinality({k \in 1..Len(seq) : seq[k] = x})

\* C9: whatever the interleaving of the workers, the rendered document holds
\* exactly one item section per item a worker appended: no append is lost or
\* duplicated, and a worker whose fetch failed contributes none and takes none
\* of its siblings' away.
C9_OneSectionPerAppendedItem ==
    body_html.tail =>
        /\ Len(body_html.articles) = SumAppended(Len(ths))
        /\ Len(arrival) = SumAppended(Len(ths))
        /\ \A k \in 1..Len(arrival) :
               CountIn(arrival[k], ArticlePosts) = CountIn(arrival[k], arrival)
        /\ \A i \in 1..Len(ths) : ths[i].failed => ths[i].appended = 0
        /\ \A k \in 1..Len(body_html.articles) : body_html.articles[k].idx = k

\* C9 witness: two sources, one yielding two items after the cutoff and one
\* failing, gave a document with exactly two item sections, and do_one_round
\* has returned
C9_Witness_TwoItemsOneFailure ==
    /\ pc = "sleeping"
    /\ Len(ths) = 2
    /\ \E i, j \in 1..2 : ths[i].failed /\ ths[j].appended = 2
    /\ Len(body_html.articles) = 2

\* C10: the default cutoff is used only in cycles that fetch no source: in a
\* cycle where a worker is started the marker file existed when the cutoff was
\* read and the cutoff is its modification time minus 24 hours; and
\* update_start never changes the list of addresses the file holds.
C10_CutoffFromFeedFileMtime ==
    /\ [](Len(ths) > 0 => (~usedDefault /\ start = mtimeRead - Day))
    /\ [][load_feeds' = load_feeds]_vars

===========================================================================
